---- MODULE Spec2Model ----
(***************************************************************************)
(* The tree-walking evaluator of src/src/evaluator/evaluator.go.           *)
(*                                                                         *)
(* Eval is a recursive function of an AST node and an environment; it is   *)
(* written here as the recursive operator Eval(node, env, s), where s is   *)
(* the interpreter's heap (environments, Array and Dict objects, the       *)
(* backing arrays of Go slices) threaded through the evaluation.  A result *)
(* is the record [r |-> object, s |-> heap afterwards].                    *)
(*                                                                         *)
(* The state machine is an interpreter session: the root environment is    *)
(* created once and every step evaluates one more Program in it.           *)
(*                                                                         *)
(* The packages object and ast are not part of the source given; what the  *)
(* evaluator needs of them (Environment, HashKey, Inspect, the iterators,  *)
(* the builtin registry, the node kinds) follows the specification's       *)
(* sections 3 and 6.                                                       *)
(***************************************************************************)
EXTENDS Integers, Sequences, FiniteSets, TLC

\* Programs evaluated in one session.
MaxInputs == 2

\* Calls of Eval one input may make before the evaluation counts as not
\* returning (an endless loop or recursion).
MaxFuel == 40

(***************************************************************************)
(* Objects.  Every object is a record [t |-> type tag, v |-> content].     *)
(* A Go nil interface value is NIL.  PANIC and DIVERGE are not objects:    *)
(* they stand for an evaluation that does not return (a Go runtime panic,  *)
(* which nothing in the evaluator recovers; an evaluation that runs out of *)
(* fuel).                                                                  *)
(***************************************************************************)
NIL == [t |-> "NIL", v |-> 0]

PANIC == [t |-> "PANIC", v |-> 0]

DIVERGE == [t |-> "DIVERGE", v |-> 0]

NULL == [t |-> "NULL", v |-> 0]

TRUE_ == [t |-> "BOOLEAN", v |-> TRUE]

FALSE_ == [t |-> "BOOLEAN", v |-> FALSE]

BREAK == [t |-> "BREAK", v |-> 0]

CONTINUE == [t |-> "CONTINUE", v |-> 0]

Integer(n) == [t |-> "INTEGER", v |-> n]

\* A Float is held as the fraction num/den in lowest terms, den > 0.
Float(num, den) == [t |-> "FLOAT", v |-> <<num, den>>]

\* A String is held as the sequence of its characters.
String(chars) == [t |-> "STRING", v |-> chars]

ReturnValue(val) == [t |-> "RETURN_VALUE", v |-> val]

\* An Array object: v is its identity, the index of its record in s.arr.
Array(id) == [t |-> "ARRAY", v |-> id]

\* A Dict object: v is its identity, the index of its record in s.dict.
Dict(id) == [t |-> "DICT", v |-> id]

Function(params, body, env, id) ==
  [t |-> "FUNCTION", v |-> [Parameters |-> params, Body |-> body, Env |-> env, id |-> id]]

Builtin(name) == [t |-> "BUILTIN", v |-> name]

newError(msg, args) == [t |-> "ERROR", v |-> [Message |-> msg, a |-> args]]

nativeBoolToBooleanObject(input) == IF input THEN TRUE_ ELSE FALSE_

isError(obj) == obj # NIL /\ obj.t = "ERROR"

\* The evaluation did not return.
Aborted(obj) == obj.t \in {"PANIC", "DIVERGE"}

isTruthy(obj) ==
  IF obj = NULL THEN FALSE
  ELSE IF obj = TRUE_ THEN TRUE
  ELSE IF obj = FALSE_ THEN FALSE
  ELSE TRUE

unwrapReturnValue(obj) == IF obj.t = "RETURN_VALUE" THEN obj.v ELSE obj

Hashable(obj) == obj.t \in {"INTEGER", "FLOAT", "BOOLEAN", "STRING"}

HashKey(obj) == <<obj.t, obj.v>>

R(r, s) == [r |-> r, s |-> s]

\* A sub-evaluation after which the code returns at once: it did not return,
\* or it returned an Error and the caller tests isError.
Halts(x) == Aborted(x.r) \/ isError(x.r)

(***************************************************************************)
(* Environments.  s.envs is the sequence of all environments created; an   *)
(* environment is named by its index.  outer = 0 is the nil outer pointer. *)
(***************************************************************************)
NewEnvironment == [store |-> <<>>, outer |-> 0]

NewEnclosedEnvironment(outer) == [store |-> <<>>, outer |-> outer]

RECURSIVE Get(_, _, _)
Get(envs, env, name) ==
  IF name \in DOMAIN envs[env].store
    THEN [val |-> envs[env].store[name], ok |-> TRUE]
  ELSE IF envs[env].outer # 0
    THEN Get(envs, envs[env].outer, name)
  ELSE [val |-> NIL, ok |-> FALSE]

Set(envs, env, name, val) ==
  [envs EXCEPT ![env].store =
     [n \in (DOMAIN @) \cup {name} |-> IF n = name THEN val ELSE @[n]]]

envSet(s, env, name, val) == [s EXCEPT !.envs = Set(@, env, name, val)]

\* The builtin registry: a read-only map from name to Builtin.
builtins == {"andika"}

\* A native function: what it returns for its arguments (nil for andika,
\* which prints).
builtinFn(name, args) == NIL

(***************************************************************************)
(* Go slices.  A slice is [base, len, cap]: base is the index in s.back of *)
(* its backing array (0: the nil slice), of which cells 1..len are the     *)
(* slice's elements and cells len+1..cap its spare capacity.  Every slice  *)
(* the evaluator makes starts at the first cell of its backing array.      *)
(***************************************************************************)
nilSlice == [base |-> 0, len |-> 0, cap |-> 0]

sliceElements(s, sl) ==
  IF sl.len = 0 THEN <<>> ELSE SubSeq(s.back[sl.base], 1, sl.len)

\* The capacity append gives a slice that must grow from oldCap to hold
\* needed elements (runtime growslice; doubling holds below 256 elements,
\* and the allocator's size classes are exact for these small sizes).
growCap(oldCap, needed) ==
  IF needed > 2 * oldCap THEN needed ELSE 2 * oldCap

\* append(sl, vals...): in place when the capacity allows, else into a new
\* backing array holding a copy.
goAppend(s, sl, vals) ==
  LET needed == sl.len + Len(vals) IN
  IF Len(vals) = 0 THEN [sl |-> sl, s |-> s]
  ELSE IF needed <= sl.cap THEN
    [sl |-> [sl EXCEPT !.len = needed],
     s  |-> [s EXCEPT !.back[sl.base] =
               [i \in 1..sl.cap |->
                  IF i > sl.len /\ i <= needed THEN vals[i - sl.len] ELSE @[i]]]]
  ELSE
    LET newCap == growCap(sl.cap, needed)
        old    == sliceElements(s, sl)
        cells  == [i \in 1..newCap |->
                     IF i <= sl.len THEN old[i]
                     ELSE IF i <= needed THEN vals[i - sl.len]
                     ELSE NIL]
    IN [sl |-> [base |-> Len(s.back) + 1, len |-> needed, cap |-> newCap],
        s  |-> [s EXCEPT !.back = Append(@, cells)]]

\* The capacity of the slice evalExpressions builds by appending n elements
\* one at a time to a nil slice.
RECURSIVE appendCap(_)
appendCap(n) ==
  IF n = 0 THEN 0
  ELSE LET c == appendCap(n - 1) IN IF n <= c THEN c ELSE growCap(c, n)

\* The slice holding vals with capacity cap in a backing array of its own
\* (the nil slice for no elements).
makeSlice(s, vals, cap) ==
  IF cap = 0 THEN [sl |-> nilSlice, s |-> s]
  ELSE [sl |-> [base |-> Len(s.back) + 1, len |-> Len(vals), cap |-> cap],
        s  |-> [s EXCEPT !.back =
                  Append(@, [i \in 1..cap |-> IF i <= Len(vals) THEN vals[i] ELSE NIL])]]

\* &object.Array{Elements: sl}: a new Array object, its iterator at 0.
newArray(s, sl) ==
  R(Array(Len(s.arr) + 1),
    [s EXCEPT !.arr = Append(@, [Elements |-> sl, offset |-> 0])])

Elements(s, array) == sliceElements(s, s.arr[array.v].Elements)

\* &object.Dict{Pairs: pairs}: a new Dict object.  Pairs maps a HashKey to
\* the DictPair [Key, Value].
newDict(s, pairs) ==
  R(Dict(Len(s.dict) + 1),
    [s EXCEPT !.dict = Append(@, [Pairs |-> pairs, offset |-> 0])])

Pairs(s, dict) == s.dict[dict.v].Pairs

putPair(pairs, key, value) ==
  [h \in (DOMAIN pairs) \cup {HashKey(key)} |->
     IF h = HashKey(key) THEN [Key |-> key, Value |-> value] ELSE pairs[h]]

\* The order in which a Dict's keys are visited (a Go map has none of its
\* own): one fixed enumeration of the map's keys.
RECURSIVE keyOrder(_)
keyOrder(keys) ==
  IF keys = {} THEN <<>>
  ELSE LET h == CHOOSE x \in keys : TRUE IN <<h>> \o keyOrder(keys \ {h})

(***************************************************************************)
(* Iterable: Array, Dict and String.  Next yields (key, value), or         *)
(* (nil, nil) when exhausted; Reset puts the iterator back to the start.   *)
(* Array and Dict objects hold their position themselves; a String is a    *)
(* value here, so its position is the cursor cur the loop carries.         *)
(***************************************************************************)
Iterable(obj) == obj.t \in {"ARRAY", "DICT", "STRING"}

IterNext(s, obj, cur) ==
  IF obj.t = "ARRAY" THEN
    LET idx == s.arr[obj.v].offset
        els == Elements(s, obj)
    IN IF Len(els) > idx
         THEN [k |-> Integer(idx), v |-> els[idx + 1], cur |-> cur,
               s |-> [s EXCEPT !.arr[obj.v].offset = idx + 1]]
         ELSE [k |-> NIL, v |-> NIL, cur |-> cur, s |-> s]
  ELSE IF obj.t = "DICT" THEN
    LET idx  == s.dict[obj.v].offset
        keys == keyOrder(DOMAIN Pairs(s, obj))
    IN IF Len(keys) > idx
         THEN [k |-> Pairs(s, obj)[keys[idx + 1]].Key,
               v |-> Pairs(s, obj)[keys[idx + 1]].Value, cur |-> cur,
               s |-> [s EXCEPT !.dict[obj.v].offset = idx + 1]]
         ELSE [k |-> NIL, v |-> NIL, cur |-> cur, s |-> s]
  ELSE
    IF Len(obj.v) > cur
      THEN [k |-> Integer(cur), v |-> String(<<obj.v[cur + 1]>>),
            cur |-> cur + 1, s |-> s]
      ELSE [k |-> NIL, v |-> NIL, cur |-> cur, s |-> s]

IterReset(s, obj) ==
  IF obj.t = "ARRAY" THEN [s EXCEPT !.arr[obj.v].offset = 0]
  ELSE IF obj.t = "DICT" THEN [s EXCEPT !.dict[obj.v].offset = 0]
  ELSE s

(***************************************************************************)
(* float64 arithmetic on fractions.  <<n, 0>> is +Inf (n = 1), -Inf        *)
(* (n = -1) or NaN (n = 0).  The fractions are exact, as float64 is for    *)
(* the small halves and quarters the inputs use.                           *)
(***************************************************************************)
abs(n) == IF n < 0 THEN -n ELSE n

sign(n) == IF n < 0 THEN -1 ELSE IF n > 0 THEN 1 ELSE 0

RECURSIVE gcd(_, _)
gcd(a, b) == IF b = 0 THEN a ELSE gcd(b, a % b)

fnorm(n, d) ==
  IF d = 0 THEN <<sign(n), 0>>
  ELSE LET g == gcd(abs(n), abs(d)) IN <<(sign(d) * n) \div g, abs(d) \div g>>

fadd(a, b) == fnorm(a[1] * b[2] + b[1] * a[2], a[2] * b[2])

fsub(a, b) == fnorm(a[1] * b[2] - b[1] * a[2], a[2] * b[2])

fmul(a, b) == fnorm(a[1] * b[1], a[2] * b[2])

fdiv(a, b) == fnorm(a[1] * b[2], a[2] * b[1])

fNaN(a) == a = <<0, 0>>

flt(a, b) ==
  /\ ~fNaN(a) /\ ~fNaN(b)
  /\ IF a[2] = 0 /\ b[2] = 0 THEN a[1] < b[1] ELSE a[1] * b[2] < b[1] * a[2]

feq(a, b) == ~fNaN(a) /\ ~fNaN(b) /\ a = b

\* math.Pow(a, b) for a whole exponent b >= 0; other exponents are outside
\* what the fractions hold (UNMODELLED) and no input uses them.
RECURSIVE fpowN(_, _)
fpowN(a, n) == IF n = 0 THEN <<1, 1>> ELSE fmul(a, fpowN(a, n - 1))

powModelled(b) == b[2] = 1 /\ b[1] >= 0

\* math.Mod(x, 1) == 0
integral(a) == a[2] = 1

\* Go's x % y for y # 0: the remainder has the sign of x.
goRem(x, y) == sign(x) * (abs(x) % abs(y))

UNMODELLED == [t |-> "UNMODELLED", v |-> 0]

(***************************************************************************)
(* The operator engine.                                                    *)
(***************************************************************************)
evalBangOperatorExpression(right) ==
  IF right = TRUE_ THEN FALSE_
  ELSE IF right = FALSE_ THEN TRUE_
  ELSE IF right = NULL THEN TRUE_
  ELSE FALSE_

\* right.Type() on a nil right is a nil dereference.
evalMinusPrefixOperatorExpression(right) ==
  IF right.t = "INTEGER" THEN Integer(-right.v)
  ELSE IF right.t = "FLOAT" THEN Float(-right.v[1], right.v[2])
  ELSE IF right = NIL THEN PANIC
  ELSE newError("Operesheni Haielweki", <<"-", right.t>>)

evalPlusPrefixOperatorExpression(right) ==
  IF right.t = "INTEGER" THEN Integer(right.v)
  ELSE IF right.t = "FLOAT" THEN Float(right.v[1], right.v[2])
  ELSE IF right = NIL THEN PANIC
  ELSE newError("Operesheni Haielweki", <<"-", right.t>>)

evalPrefixExpression(operator, right) ==
  IF operator = "!" THEN evalBangOperatorExpression(right)
  ELSE IF operator = "-" THEN evalMinusPrefixOperatorExpression(right)
  ELSE IF operator = "+" THEN evalPlusPrefixOperatorExpression(right)
  ELSE IF right = NIL THEN PANIC
  ELSE newError("Operesheni haieleweki", <<operator, right.t>>)

evalIntegerInfixExpression(operator, left, right) ==
  LET leftVal  == left.v
      rightVal == right.v
      x        == fdiv(<<leftVal, 1>>, <<rightVal, 1>>)
  IN CASE operator = "+" -> Integer(leftVal + rightVal)
       [] operator = "-" -> Integer(leftVal - rightVal)
       [] operator = "*" -> Integer(leftVal * rightVal)
       [] operator = "**" ->
            IF rightVal >= 0 THEN Integer(fpowN(<<leftVal, 1>>, rightVal)[1])
            ELSE UNMODELLED
       [] operator = "/" ->
            IF integral(x) THEN Integer(x[1]) ELSE Float(x[1], x[2])
       [] operator = "%" ->
            IF rightVal = 0 THEN PANIC ELSE Integer(goRem(leftVal, rightVal))
       [] operator = "<" -> nativeBoolToBooleanObject(leftVal < rightVal)
       [] operator = "<=" -> nativeBoolToBooleanObject(leftVal <= rightVal)
       [] operator = ">" -> nativeBoolToBooleanObject(leftVal > rightVal)
       [] operator = ">=" -> nativeBoolToBooleanObject(leftVal >= rightVal)
       [] operator = "==" -> nativeBoolToBooleanObject(leftVal = rightVal)
       [] operator = "!=" -> nativeBoolToBooleanObject(leftVal # rightVal)
       [] OTHER -> newError("Operesheni Haielweki", <<left.t, operator, right.t>>)

evalFloatInfixExpression(operator, left, right) ==
  LET leftVal  == left.v
      rightVal == right.v
      mk(f)    == Float(f[1], f[2])
  IN CASE operator = "+" -> mk(fadd(leftVal, rightVal))
       [] operator = "-" -> mk(fsub(leftVal, rightVal))
       [] operator = "*" -> mk(fmul(leftVal, rightVal))
       [] operator = "**" ->
            IF powModelled(rightVal) THEN mk(fpowN(leftVal, rightVal[1]))
            ELSE UNMODELLED
       [] operator = "/" -> mk(fdiv(leftVal, rightVal))
       [] operator = "<" -> nativeBoolToBooleanObject(flt(leftVal, rightVal))
       [] operator = "<=" ->
            nativeBoolToBooleanObject(flt(leftVal, rightVal) \/ feq(leftVal, rightVal))
       [] operator = ">" -> nativeBoolToBooleanObject(flt(rightVal, leftVal))
       [] operator = ">=" ->
            nativeBoolToBooleanObject(flt(rightVal, leftVal) \/ feq(leftVal, rightVal))
       [] operator = "==" -> nativeBoolToBooleanObject(feq(leftVal, rightVal))
       [] operator = "!=" -> nativeBoolToBooleanObject(~feq(leftVal, rightVal))
       [] OTHER -> newError("Operesheni Haielweki", <<left.t, operator, right.t>>)

evalFloatIntegerInfixExpression(operator, left, right) ==
  LET leftVal  == IF left.t = "FLOAT" THEN left.v ELSE <<left.v, 1>>
      rightVal == IF left.t = "FLOAT" THEN <<right.v, 1>> ELSE right.v
      demote(val) == IF integral(val) THEN Integer(val[1]) ELSE Float(val[1], val[2])
  IN CASE operator = "+" -> demote(fadd(leftVal, rightVal))
       [] operator = "-" -> demote(fsub(leftVal, rightVal))
       [] operator = "*" -> demote(fmul(leftVal, rightVal))
       [] operator = "**" ->
            IF powModelled(rightVal) THEN demote(fpowN(leftVal, rightVal[1]))
            ELSE UNMODELLED
       [] operator = "/" -> demote(fdiv(leftVal, rightVal))
       [] operator = "<" -> nativeBoolToBooleanObject(flt(leftVal, rightVal))
       [] operator = "<=" ->
            nativeBoolToBooleanObject(flt(leftVal, rightVal) \/ feq(leftVal, rightVal))
       [] operator = ">" -> nativeBoolToBooleanObject(flt(rightVal, leftVal))
       [] operator = ">=" ->
            nativeBoolToBooleanObject(flt(rightVal, leftVal) \/ feq(leftVal, rightVal))
       [] operator = "==" -> nativeBoolToBooleanObject(feq(leftVal, rightVal))
       [] operator = "!=" -> nativeBoolToBooleanObject(~feq(leftVal, rightVal))
       [] OTHER -> newError("Operesheni Haielweki", <<left.t, operator, right.t>>)

evalBooleanInfixExpression(operator, left, right) ==
  LET leftVal  == left.v
      rightVal == right.v
  IN CASE operator = "&&" -> nativeBoolToBooleanObject(leftVal /\ rightVal)
       [] operator = "||" -> nativeBoolToBooleanObject(leftVal \/ rightVal)
       [] OTHER -> newError("Operesheni Haielweki", <<left.t, operator, right.t>>)

evalStringInfixExpression(operator, left, right) ==
  LET leftVal  == left.v
      rightVal == right.v
  IN CASE operator = "+" -> String(leftVal \o rightVal)
       [] operator = "==" -> nativeBoolToBooleanObject(leftVal = rightVal)
       [] operator = "!=" -> nativeBoolToBooleanObject(leftVal # rightVal)
       [] OTHER -> newError("Operesheni Haielweki", <<left.t, operator, right.t>>)

\* strings.Contains(s, substr)
Contains(str, substr) ==
  \E i \in 0..(Len(str) - Len(substr)) :
     SubSeq(str, i + 1, i + Len(substr)) = substr

\* strings.Repeat(str, count) for count >= 0
RECURSIVE Repeat(_, _)
Repeat(str, count) == IF count = 0 THEN <<>> ELSE str \o Repeat(str, count - 1)

evalInStringExpression(left, right) ==
  IF left.t # "STRING" THEN FALSE_
  ELSE nativeBoolToBooleanObject(Contains(right.v, left.v))

evalInDictExpression(s, left, right) ==
  IF ~Hashable(left) THEN
    IF left = NIL THEN PANIC
    ELSE newError("Huwezi kutumia kama 'key'", <<left.t>>)
  ELSE nativeBoolToBooleanObject(HashKey(left) \in DOMAIN Pairs(s, right))

\* An element that is nil makes v.Type() a nil dereference; the loop stops
\* at the first match.
evalInArrayExpression(s, left, right) ==
  LET els == Elements(s, right)
      hit(v) == v.t = left.t /\ (left.t = "NULL" \/
                  IF left.t = "FLOAT" THEN feq(v.v, left.v) ELSE v.v = left.v)
      first == IF \E i \in 1..Len(els) : hit(els[i])
                 THEN CHOOSE i \in 1..Len(els) :
                        hit(els[i]) /\ \A j \in 1..(i - 1) : ~hit(els[j])
                 ELSE Len(els) + 1
  IN IF left.t \notin {"NULL", "STRING", "INTEGER", "FLOAT"} THEN FALSE_
     ELSE IF \E i \in 1..Len(els) : i < first /\ els[i] = NIL THEN PANIC
     ELSE nativeBoolToBooleanObject(first <= Len(els))

evalInExpression(s, left, right) ==
  IF right.t = "STRING" THEN evalInStringExpression(left, right)
  ELSE IF right.t = "ARRAY" THEN evalInArrayExpression(s, left, right)
  ELSE IF right.t = "DICT" THEN evalInDictExpression(s, left, right)
  ELSE FALSE_

(***************************************************************************)
(* Inspect: an object's text, as the sequence of its characters.           *)
(***************************************************************************)
digitChar == <<"0", "1", "2", "3", "4", "5", "6", "7", "8", "9">>

RECURSIVE natText(_)
natText(n) ==
  IF n < 10 THEN <<digitChar[n + 1]>>
  ELSE natText(n \div 10) \o <<digitChar[(n % 10) + 1]>>

intText(n) == IF n < 0 THEN <<"-">> \o natText(-n) ELSE natText(n)

\* The digits after the point of the fraction n/d, 0 <= n < d, at most k.
RECURSIVE fracText(_, _, _)
fracText(n, d, k) ==
  IF n = 0 \/ k = 0 THEN <<>>
  ELSE <<digitChar[((10 * n) \div d) + 1]>> \o fracText((10 * n) % d, d, k - 1)

floatText(f) ==
  IF f[2] = 0
    THEN IF f[1] > 0 THEN <<"+", "I", "n", "f">>
         ELSE IF f[1] < 0 THEN <<"-", "I", "n", "f">> ELSE <<"N", "a", "N">>
  ELSE (IF f[1] < 0 THEN <<"-">> ELSE <<>>)
       \o natText(abs(f[1]) \div f[2])
       \o (IF f[2] = 1 THEN <<>> ELSE <<".">> \o fracText(abs(f[1]) % f[2], f[2], 17))

RECURSIVE Inspect(_, _)
RECURSIVE joinInspect(_, _)
joinInspect(s, objs) ==
  IF objs = <<>> THEN <<>>
  ELSE Inspect(s, Head(objs))
       \o (IF Len(objs) = 1 THEN <<>> ELSE <<",", " ">> \o joinInspect(s, Tail(objs)))

Inspect(s, obj) ==
  CASE obj.t = "INTEGER" -> intText(obj.v)
    [] obj.t = "FLOAT" -> floatText(obj.v)
    [] obj.t = "STRING" -> obj.v
    [] obj.t = "BOOLEAN" ->
         IF obj.v THEN <<"k", "w", "e", "l", "i">>
         ELSE <<"s", "i", "k", "w", "e", "l", "i">>
    [] obj.t = "NULL" -> <<"n", "u", "l", "l">>
    [] obj.t = "ARRAY" -> <<"[">> \o joinInspect(s, Elements(s, obj)) \o <<"]">>
    [] obj.t = "ERROR" -> <<"Kosa: ", obj.v.Message>> \o obj.v.a
    [] obj.t = "RETURN_VALUE" -> Inspect(s, obj.v)
    [] OTHER -> <<obj.t>>

(***************************************************************************)
(* AST nodes.  Every node carries the line of its token; line 0 is a node  *)
(* whose evaluation is not recorded in the log.                            *)
(***************************************************************************)
Program(stmts) == [k |-> "Program", line |-> 0, Statements |-> stmts]

ExpressionStatement(line, e) ==
  [k |-> "ExpressionStatement", line |-> line, Expression |-> e]

IntegerLiteral(n) == [k |-> "IntegerLiteral", line |-> 0, Value |-> n]

FloatLiteral(num, den) == [k |-> "FloatLiteral", line |-> 0, Value |-> <<num, den>>]

Boolean(b) == [k |-> "Boolean", line |-> 0, Value |-> b]

StringLiteral(chars) == [k |-> "StringLiteral", line |-> 0, Value |-> chars]

Null == [k |-> "Null", line |-> 0]

Identifier(line, name) == [k |-> "Identifier", line |-> line, Value |-> name]

PrefixExpression(op, right) ==
  [k |-> "PrefixExpression", line |-> 0, Operator |-> op, Right |-> right]

InfixExpression(left, op, right) ==
  [k |-> "InfixExpression", line |-> 0, Operator |-> op, Left |-> left, Right |-> right]

\* Token.Literal of a postfix expression is the name it applies to.
PostfixExpression(line, name, op) ==
  [k |-> "PostfixExpression", line |-> line, Operator |-> op, Literal |-> name]

IndexExpression(left, index) ==
  [k |-> "IndexExpression", line |-> 0, Left |-> left, Index |-> index]

ArrayLiteral(elems) == [k |-> "ArrayLiteral", line |-> 0, Elements |-> elems]

\* Pairs: the sequence of <<key node, value node>>.
DictLiteral(pairs) == [k |-> "DictLiteral", line |-> 0, Pairs |-> pairs]

BlockStatement(stmts) == [k |-> "BlockStatement", line |-> 0, Statements |-> stmts]

\* The nil Alternative of an if without else.
NoNode == [k |-> "nil", line |-> 0]

IfExpression(cond, cons, alt) ==
  [k |-> "IfExpression", line |-> 0, Condition |-> cond, Consequence |-> cons,
   Alternative |-> alt]

WhileExpression(cond, cons) ==
  [k |-> "WhileExpression", line |-> 0, Condition |-> cond, Consequence |-> cons]

ForIn(key, value, iterable, block) ==
  [k |-> "ForIn", line |-> 0, Key |-> key, Value |-> value, Iterable |-> iterable,
   Block |-> block]

CaseExpression(default, exprs, block) ==
  [Default |-> default, Expr |-> exprs, Block |-> block]

SwitchExpression(value, choices) ==
  [k |-> "SwitchExpression", line |-> 0, Value |-> value, Choices |-> choices]

CallExpression(function, args) ==
  [k |-> "CallExpression", line |-> 0, Function |-> function, Arguments |-> args]

FunctionLiteral(params, body) ==
  [k |-> "FunctionLiteral", line |-> 0, Parameters |-> params, Body |-> body]

ReturnStatement(line, e) == [k |-> "ReturnStatement", line |-> line, ReturnValue |-> e]

LetStatement(line, name, e) ==
  [k |-> "LetStatement", line |-> line, Name |-> name, Value |-> e]

\* Token.Literal is "=" or a compound operator such as "+=".
AssignmentExpression(line, left, literal, value) ==
  [k |-> "AssignmentExpression", line |-> line, Left |-> left, Literal |-> literal,
   Value |-> value]

Break == [k |-> "Break", line |-> 0]

Continue == [k |-> "Continue", line |-> 0]

(***************************************************************************)
(* The evaluator.  s.fuel counts the calls of Eval left to this input and  *)
(* s.log lists the lines of the nodes Eval was called on.                  *)
(***************************************************************************)
RECURSIVE Eval(_, _, _)
RECURSIVE evalInfixExpression(_, _, _, _)
RECURSIVE repeatAppend(_, _, _, _)
RECURSIVE evalProgramFrom(_, _, _, _, _)
RECURSIVE evalBlockFrom(_, _, _, _, _)
RECURSIVE evalExpressionsFrom(_, _, _, _, _)
RECURSIVE evalDictPairsFrom(_, _, _, _, _)
RECURSIVE evalWhileExpression(_, _, _)
RECURSIVE loopIterable(_, _, _, _, _)
RECURSIVE switchChoices(_, _, _, _, _)
RECURSIVE switchExprs(_, _, _, _, _)
RECURSIVE switchDefault(_, _, _, _)

\* for i := n; i > 1; i-- { elements = append(elements, vals...) }
repeatAppend(s, sl, vals, i) ==
  IF i > 1
    THEN LET one == goAppend(s, sl, vals) IN repeatAppend(one.s, one.sl, vals, i - 1)
    ELSE [sl |-> sl, s |-> s]

\* left == right on two objects: the same pointer.  The singletons, the
\* builtins and the heap objects are told apart by what they hold here; two
\* Function objects by their identity.
samePointer(left, right) ==
  /\ left.t = right.t
  /\ IF left.t = "FUNCTION" THEN left.v.id = right.v.id ELSE left.v = right.v

\* right.Type() is reached with a nil right in every case but these.
rightTypeRead(operator, left) ==
  \/ left.t \in {"STRING", "INTEGER", "FLOAT"}
  \/ operator = "+" /\ left.t \in {"DICT", "ARRAY"}
  \/ operator = "*" /\ left.t = "ARRAY"
  \/ operator \notin {"ktk", "==", "!="}

evalInfixExpression(s, operator, left, right) ==
  IF left = NIL THEN R(newError("Umekosea hapa", <<>>), s)
  ELSE IF right = NIL /\ rightTypeRead(operator, left) THEN R(PANIC, s)
  ELSE IF left.t = "STRING" /\ right.t = "STRING"
    THEN R(evalStringInfixExpression(operator, left, right), s)
  ELSE IF operator = "+" /\ left.t = "DICT" /\ right.t = "DICT"
    THEN LET leftVal  == Pairs(s, left)
             rightVal == Pairs(s, right)
         IN newDict(s, [h \in (DOMAIN leftVal) \cup (DOMAIN rightVal) |->
                          IF h \in DOMAIN rightVal THEN rightVal[h] ELSE leftVal[h]])
  ELSE IF operator = "+" /\ left.t = "ARRAY" /\ right.t = "ARRAY"
    THEN LET elements == goAppend(s, s.arr[left.v].Elements, Elements(s, right))
         IN newArray(elements.s, elements.sl)
  ELSE IF operator = "*" /\ left.t = "ARRAY" /\ right.t = "INTEGER"
    THEN LET elements == repeatAppend(s, s.arr[left.v].Elements, Elements(s, left), right.v)
         IN newArray(elements.s, elements.sl)
  ELSE IF operator = "*" /\ left.t = "INTEGER" /\ right.t = "ARRAY"
    THEN LET elements == repeatAppend(s, s.arr[right.v].Elements, Elements(s, right), left.v)
         IN newArray(elements.s, elements.sl)
  ELSE IF operator = "*" /\ left.t = "STRING" /\ right.t = "INTEGER"
    THEN R(IF right.v < 0 THEN PANIC ELSE String(Repeat(left.v, right.v)), s)
  ELSE IF operator = "*" /\ left.t = "INTEGER" /\ right.t = "STRING"
    THEN R(IF left.v < 0 THEN PANIC ELSE String(Repeat(right.v, left.v)), s)
  ELSE IF left.t = "INTEGER" /\ right.t = "INTEGER"
    THEN R(evalIntegerInfixExpression(operator, left, right), s)
  ELSE IF left.t = "FLOAT" /\ right.t = "FLOAT"
    THEN R(evalFloatInfixExpression(operator, left, right), s)
  ELSE IF left.t = "INTEGER" /\ right.t = "FLOAT"
    THEN R(evalFloatIntegerInfixExpression(operator, left, right), s)
  ELSE IF left.t = "FLOAT" /\ right.t = "INTEGER"
    THEN R(evalFloatIntegerInfixExpression(operator, left, right), s)
  ELSE IF operator = "ktk" THEN R(evalInExpression(s, left, right), s)
  ELSE IF operator = "==" THEN R(nativeBoolToBooleanObject(samePointer(left, right)), s)
  ELSE IF operator = "!=" THEN R(nativeBoolToBooleanObject(~samePointer(left, right)), s)
  ELSE IF left.t = "BOOLEAN" /\ right.t = "BOOLEAN"
    THEN R(evalBooleanInfixExpression(operator, left, right), s)
  ELSE IF left.t # right.t
    THEN R(newError("Aina Hazilingani", <<left.t, operator, right.t>>), s)
  ELSE R(newError("Operesheni Haielweki", <<left.t, operator, right.t>>), s)

evalPostfixExpression(env, operator, node, s) ==
  LET got == Get(s.envs, env, node.Literal)
      val == got.val
      set(v) == R(v, envSet(s, env, node.Literal, v))
  IN IF ~got.ok THEN R(newError("Tumia KITAMBULISHI CHA NAMBA AU DESIMALI", <<>>), s)
     ELSE IF operator = "++" THEN
       IF val.t = "INTEGER" THEN set(Integer(val.v + 1))
       ELSE IF val.t = "FLOAT" THEN set(Float(fadd(val.v, <<1, 1>>)[1], fadd(val.v, <<1, 1>>)[2]))
       ELSE R(newError("sio kitambulishi cha namba", <<"++", node.Literal>>), s)
     ELSE IF operator = "--" THEN
       IF val.t = "INTEGER" THEN set(Integer(val.v - 1))
       ELSE IF val.t = "FLOAT" THEN set(Float(fsub(val.v, <<1, 1>>)[1], fsub(val.v, <<1, 1>>)[2]))
       ELSE R(newError("sio kitambulishi cha namba", <<"--", node.Literal>>), s)
     ELSE R(newError("Haifahamiki", <<operator>>), s)

evalIfExpression(ie, env, s) ==
  LET condition == Eval(ie.Condition, env, s) IN
  IF Halts(condition) THEN condition
  ELSE IF isTruthy(condition.r) THEN Eval(ie.Consequence, env, condition.s)
  ELSE IF ie.Alternative.k # "nil" THEN Eval(ie.Alternative, env, condition.s)
  ELSE R(NULL, condition.s)

\* evalBlockStatement as it would be if a ReturnValue did not end the block:
\* the statements after a return would run.
evalBlockFromPastReturn(stmts, i, result, env, s) ==
  IF i > Len(stmts) THEN R(result, s)
  ELSE LET res == Eval(stmts[i], env, s) IN
       IF Aborted(res.r) THEN res
       ELSE IF res.r # NIL /\ res.r.t \in {"ERROR", "CONTINUE", "BREAK"}
         THEN res
       ELSE evalBlockFrom(stmts, i + 1, res.r, env, res.s)

evalBlockFrom(stmts, i, result, env, s) ==
  IF i > Len(stmts) THEN R(result, s)
  ELSE LET res == Eval(stmts[i], env, s) IN
       IF Aborted(res.r) THEN res
       ELSE IF res.r # NIL /\ res.r.t \in {"RETURN_VALUE", "ERROR", "CONTINUE", "BREAK"}
         THEN res
       ELSE evalBlockFrom(stmts, i + 1, res.r, env, res.s)

evalBlockStatement(block, env, s) == evalBlockFrom(block.Statements, 1, NIL, env, s)

evalProgramFrom(stmts, i, result, env, s) ==
  IF i > Len(stmts) THEN R(result, s)
  ELSE LET res == Eval(stmts[i], env, s) IN
       IF Aborted(res.r) THEN res
       ELSE IF res.r.t = "RETURN_VALUE" THEN R(res.r.v, res.s)
       ELSE IF res.r.t = "ERROR" THEN res
       ELSE evalProgramFrom(stmts, i + 1, res.r, env, res.s)

evalProgram(program, env, s) == evalProgramFrom(program.Statements, 1, NIL, env, s)

evalIdentifier(node, env, s) ==
  LET got == Get(s.envs, env, node.Value) IN
  IF got.ok THEN got.val
  ELSE IF node.Value \in builtins THEN Builtin(node.Value)
  ELSE newError("Neno Halifahamiki", <<node.Value>>)

evalExpressionsFrom(exps, i, result, env, s) ==
  IF i > Len(exps) THEN R(result, s)
  ELSE LET evaluated == Eval(exps[i], env, s) IN
       IF Halts(evaluated) THEN R(<<evaluated.r>>, evaluated.s)
       ELSE evalExpressionsFrom(exps, i + 1, Append(result, evaluated.r), env, evaluated.s)

\* The result holds the objects; an evaluation that did not return is the
\* one-element list of PANIC or DIVERGE.
evalExpressions(exps, env, s) == evalExpressionsFrom(exps, 1, <<>>, env, s)

\* A list the callers of evalExpressions return the only element of.
isErrorList(objs) == Len(objs) = 1 /\ (Aborted(objs[1]) \/ isError(objs[1]))

\* extendedFunctionEnv as it would be if a parameter without an argument were
\* bound to NULL in the new environment.
extendedFunctionEnvPadded(fn, args, s) ==
  LET params == fn.v.Parameters
      last(n) == CHOOSE i \in 1..Len(params) :
                   params[i] = n /\ \A j \in 1..Len(params) : params[j] = n => j <= i
      store  == [n \in {params[i] : i \in 1..Len(params)} |->
                   IF last(n) <= Len(args) THEN args[last(n)] ELSE NULL]
  IN [env |-> Len(s.envs) + 1,
      s   |-> [s EXCEPT !.envs =
                 Append(@, [NewEnclosedEnvironment(fn.v.Env) EXCEPT !.store = store])]]

\* A new environment enclosed in the closure's, binding each parameter that
\* has an argument.
extendedFunctionEnv(fn, args, s) ==
  LET params == fn.v.Parameters
      bound  == {i \in 1..Len(params) : i <= Len(args)}
      last(n) == CHOOSE i \in bound : params[i] = n /\ \A j \in bound : params[j] = n => j <= i
      store  == [n \in {params[i] : i \in bound} |-> args[last(n)]]
  IN [env |-> Len(s.envs) + 1,
      s   |-> [s EXCEPT !.envs =
                 Append(@, [NewEnclosedEnvironment(fn.v.Env) EXCEPT !.store = store])]]

applyFunction(fn, args, s) ==
  IF fn.t = "FUNCTION" THEN
    LET extendedEnv == extendedFunctionEnv(fn, args, s)
        evaluated   == Eval(fn.v.Body, extendedEnv.env, extendedEnv.s)
    IN R(unwrapReturnValue(evaluated.r), evaluated.s)
  ELSE IF fn.t = "BUILTIN" THEN
    LET result == builtinFn(fn.v, args) IN R(IF result # NIL THEN result ELSE NULL, s)
  ELSE IF fn = NIL THEN R(PANIC, s)
  ELSE R(newError("Hii sio function", <<fn.t>>), s)

evalArrayIndexExpression(s, array, index) ==
  LET idx == index.v
      max == Len(Elements(s, array)) - 1
  IN IF idx < 0 \/ idx > max THEN NULL ELSE Elements(s, array)[idx + 1]

evalDictIndexExpression(s, dict, index) ==
  IF ~Hashable(index) THEN
    IF index = NIL THEN PANIC ELSE newError("haitumiki kama key", <<index.t>>)
  ELSE IF HashKey(index) \notin DOMAIN Pairs(s, dict) THEN NULL
  ELSE Pairs(s, dict)[HashKey(index)].Value

evalIndexExpression(s, left, index) ==
  IF left = NIL THEN PANIC
  ELSE IF left.t = "ARRAY" THEN
    IF index = NIL THEN PANIC
    ELSE IF index.t = "INTEGER" THEN evalArrayIndexExpression(s, left, index)
    ELSE newError("Tafadhali tumia number, sio", <<index.t>>)
  ELSE IF left.t = "DICT" THEN evalDictIndexExpression(s, left, index)
  ELSE newError("Operesheni hii haiwezekani kwa", <<left.t>>)

\* The pairs are visited in the order given (a Go map's order is not fixed).
evalDictPairsFrom(node, i, pairs, env, s) ==
  IF i > Len(node.Pairs) THEN newDict(s, pairs)
  ELSE LET key == Eval(node.Pairs[i][1], env, s) IN
       IF Halts(key) THEN key
       ELSE IF ~Hashable(key.r) THEN
         R(IF key.r = NIL THEN PANIC
           ELSE newError("Hashing imeshindikana", <<key.r.t>>), key.s)
       ELSE LET value == Eval(node.Pairs[i][2], env, key.s) IN
            IF Halts(value) THEN value
            ELSE evalDictPairsFrom(node, i + 1, putPair(pairs, key.r, value.r), env, value.s)

evalDictLiteral(node, env, s) == evalDictPairsFrom(node, 1, <<>>, env, s)

evalWhileExpression(we, env, s) ==
  LET condition == Eval(we.Condition, env, s) IN
  IF Halts(condition) THEN condition
  ELSE IF isTruthy(condition.r) THEN
    LET evaluated == Eval(we.Consequence, env, condition.s) IN
    IF Halts(evaluated) THEN evaluated
    ELSE IF evaluated.r # NIL /\ evaluated.r.t = "BREAK" THEN evaluated
    ELSE LET rest == evalWhileExpression(we, env, evaluated.s) IN
         IF Aborted(rest.r) THEN rest ELSE R(NULL, rest.s)
  ELSE R(NULL, condition.s)

evalBreak(node) == BREAK

evalContinue(node) == CONTINUE

loopIterable(iterable, cur, env, fi, s) ==
  LET next == IterNext(s, iterable, cur) IN
  IF next.k = NIL \/ next.v = NIL THEN R(NULL, next.s)
  ELSE LET bound == envSet(envSet(next.s, env, fi.Key, next.k), env, fi.Value, next.v)
           res   == Eval(fi.Block, env, bound)
       IN IF Halts(res) THEN res
          ELSE IF res.r # NIL /\ res.r.t = "BREAK" THEN R(NULL, res.s)
          ELSE IF res.r # NIL /\ res.r.t = "RETURN_VALUE" THEN res
          ELSE loopIterable(iterable, next.cur, env, fi, res.s)

\* The deferred functions run on every exit, a panic included: the iterator
\* is reset, then the bindings found before the loop are set again.
\* evalForInExpression as it would be without the deferred restore of the
\* key and value names.
evalForInExpressionNoRestore(fie, env, s) ==
  LET iterable == Eval(fie.Iterable, env, s) IN
  IF Aborted(iterable.r) THEN iterable
  ELSE
    LET i == iterable.r
    IN IF Iterable(i) THEN
         LET out == loopIterable(i, 0, env, fie, iterable.s) IN
         IF out.r = DIVERGE THEN out ELSE R(out.r, IterReset(out.s, i))
       ELSE IF i = NIL THEN R(PANIC, iterable.s)
       ELSE R(newError("Huwezi kufanya operesheni hii na", <<i.t>>), iterable.s)

evalForInExpression(fie, env, s) ==
  LET iterable == Eval(fie.Iterable, env, s) IN
  IF Aborted(iterable.r) THEN iterable
  ELSE
    LET existingKeyIdentifier   == Get(iterable.s.envs, env, fie.Key)
        existingValueIdentifier == Get(iterable.s.envs, env, fie.Value)
        restoreKey(st) ==
          IF existingKeyIdentifier.ok
            THEN envSet(st, env, fie.Key, existingKeyIdentifier.val) ELSE st
        restoreValue(st) ==
          IF existingValueIdentifier.ok
            THEN envSet(st, env, fie.Value, existingValueIdentifier.val) ELSE st
        restore(st) == restoreValue(restoreKey(st))
        i == iterable.r
    IN IF Iterable(i) THEN
         LET out == loopIterable(i, 0, env, fie, iterable.s) IN
         IF out.r = DIVERGE THEN out ELSE R(out.r, restore(IterReset(out.s, i)))
       ELSE IF i = NIL THEN R(PANIC, restore(iterable.s))
       ELSE R(newError("Huwezi kufanya operesheni hii na", <<i.t>>), restore(iterable.s))

\* The candidates of one clause as they would be matched if only the textual
\* inspection were compared, not the type tag.
switchExprsByText(opt, j, obj, env, s) ==
  IF j > Len(opt.Expr) THEN [done |-> FALSE, out |-> R(NIL, s)]
  ELSE LET out == Eval(opt.Expr[j], env, s) IN
       IF Aborted(out.r) THEN [done |-> TRUE, out |-> out]
       ELSE IF obj = NIL \/ out.r = NIL THEN [done |-> TRUE, out |-> R(PANIC, out.s)]
       ELSE IF Inspect(out.s, obj) = Inspect(out.s, out.r)
         THEN [done |-> TRUE, out |-> evalBlockStatement(opt.Block, env, out.s)]
       ELSE switchExprs(opt, j + 1, obj, env, out.s)

switchExprs(opt, j, obj, env, s) ==
  IF j > Len(opt.Expr) THEN [done |-> FALSE, out |-> R(NIL, s)]
  ELSE LET out == Eval(opt.Expr[j], env, s) IN
       IF Aborted(out.r) THEN [done |-> TRUE, out |-> out]
       ELSE IF obj = NIL \/ out.r = NIL THEN [done |-> TRUE, out |-> R(PANIC, out.s)]
       ELSE IF obj.t = out.r.t /\ Inspect(out.s, obj) = Inspect(out.s, out.r)
         THEN [done |-> TRUE, out |-> evalBlockStatement(opt.Block, env, out.s)]
       ELSE switchExprs(opt, j + 1, obj, env, out.s)

switchChoices(se, i, obj, env, s) ==
  IF i > Len(se.Choices) THEN switchDefault(se, 1, env, s)
  ELSE IF se.Choices[i].Default THEN switchChoices(se, i + 1, obj, env, s)
  ELSE LET m == switchExprs(se.Choices[i], 1, obj, env, s) IN
       IF m.done THEN m.out ELSE switchChoices(se, i + 1, obj, env, m.out.s)

switchDefault(se, i, env, s) ==
  IF i > Len(se.Choices) THEN R(NIL, s)
  ELSE IF se.Choices[i].Default THEN evalBlockStatement(se.Choices[i].Block, env, s)
  ELSE switchDefault(se, i + 1, env, s)

evalSwitchStatement(se, env, s) ==
  LET obj == Eval(se.Value, env, s) IN
  IF Aborted(obj.r) THEN obj ELSE switchChoices(se, 1, obj.r, env, obj.s)

(***************************************************************************)
(* The cases of Eval's type switch that the source writes inline.          *)
(***************************************************************************)
casePrefixExpression(node, env, s) ==
  LET right == Eval(node.Right, env, s) IN
  IF Halts(right) THEN right
  ELSE R(evalPrefixExpression(node.Operator, right.r), right.s)

caseInfixExpression(node, env, s) ==
  LET left == Eval(node.Left, env, s) IN
  IF Halts(left) THEN left
  ELSE LET right == Eval(node.Right, env, left.s) IN
       IF Halts(right) THEN right
       ELSE evalInfixExpression(right.s, node.Operator, left.r, right.r)

caseReturnStatement(node, env, s) ==
  LET val == Eval(node.ReturnValue, env, s) IN
  IF Halts(val) THEN val ELSE R(ReturnValue(val.r), val.s)

\* After env.Set the switch is left and Eval returns nil.
caseLetStatement(node, env, s) ==
  LET val == Eval(node.Value, env, s) IN
  IF Halts(val) THEN val ELSE R(NIL, envSet(val.s, env, node.Name, val.r))

\* The FunctionLiteral case as it would be if the closure captured a copy of
\* the environment: a later rebinding in env would not reach the function.
caseFunctionLiteralCopy(node, env, s) ==
  R(Function(node.Parameters, node.Body, Len(s.envs) + 1, s.nfn + 1),
    [s EXCEPT !.nfn = @ + 1, !.envs = Append(@, s.envs[env])])

caseFunctionLiteral(node, env, s) ==
  R(Function(node.Parameters, node.Body, env, s.nfn + 1), [s EXCEPT !.nfn = @ + 1])

caseCallExpression(node, env, s) ==
  LET function == Eval(node.Function, env, s) IN
  IF Halts(function) THEN function
  ELSE LET args == evalExpressions(node.Arguments, env, function.s) IN
       IF isErrorList(args.r) THEN R(args.r[1], args.s)
       ELSE applyFunction(function.r, args.r, args.s)

caseArrayLiteral(node, env, s) ==
  LET elements == evalExpressions(node.Elements, env, s) IN
  IF isErrorList(elements.r) THEN R(elements.r[1], elements.s)
  ELSE LET sl == makeSlice(elements.s, elements.r, appendCap(Len(elements.r)))
       IN newArray(sl.s, sl.sl)

caseIndexExpression(node, env, s) ==
  LET left == Eval(node.Left, env, s) IN
  IF Halts(left) THEN left
  ELSE LET index == Eval(node.Index, env, left.s) IN
       IF Halts(index) THEN index
       ELSE R(evalIndexExpression(index.s, left.r, index.r), index.s)

\* The operator of a compound assignment: the literal without its last
\* character, for the literals of two characters or more.
compoundOperator(literal) ==
  CASE literal = "+=" -> "+"
    [] literal = "-=" -> "-"
    [] literal = "*=" -> "*"
    [] literal = "/=" -> "/"

\* array.Elements[idx] = value: an index outside 0..len-1 is a runtime panic.
storeElement(s, array, idx, value) ==
  LET sl == s.arr[array.v].Elements IN
  IF idx < 0 \/ idx >= sl.len THEN R(PANIC, s)
  ELSE R(NIL, [s EXCEPT !.back[sl.base][idx + 1] = value])

\* The store of an assignment whose target is the index expression ie.
assignIndex(ie, value, env, s) ==
  LET obj == Eval(ie.Left, env, s) IN
  IF Halts(obj) THEN obj
  ELSE IF obj.r.t = "ARRAY" THEN
    LET index == Eval(ie.Index, env, obj.s) IN
    IF Halts(index) THEN index
    ELSE IF index.r.t = "INTEGER" THEN
      IF index.r.v > Len(Elements(index.s, obj.r))
        THEN R(newError("Index imezidi idadi ya elements", <<>>), index.s)
        ELSE storeElement(index.s, obj.r, index.r.v, value)
    ELSE R(newError("Hauwezi kufanya opereshen hii na", <<index.r.t>>), index.s)
  ELSE IF obj.r.t = "DICT" THEN
    LET key == Eval(ie.Index, env, obj.s) IN
    IF Halts(key) THEN key
    ELSE IF Hashable(key.r) THEN
      R(NIL, [key.s EXCEPT !.dict[obj.r.v].Pairs = putPair(@, key.r, value)])
    ELSE R(newError("Hauwezi kufanya opereshen hii na", <<key.r.t>>), key.s)
  ELSE R(newError("haifanyi operation hii", <<obj.r.t>>), obj.s)

caseAssignmentExpression(node, env, s) ==
  LET left == Eval(node.Left, env, s) IN
  IF Halts(left) THEN left
  ELSE LET value == Eval(node.Value, env, left.s) IN
    IF Halts(value) THEN value
    ELSE LET folded == IF node.Literal # "="
                         THEN evalInfixExpression(value.s, compoundOperator(node.Literal),
                                                  left.r, value.r)
                         ELSE value
      IN IF Halts(folded) THEN folded
         ELSE IF node.Left.k = "Identifier"
           THEN R(NIL, envSet(folded.s, env, node.Left.Value, folded.r))
         ELSE IF node.Left.k = "IndexExpression"
           THEN assignIndex(node.Left, folded.r, env, folded.s)
         ELSE R(newError("Tumia neno kama variable, sio", <<left.r.t>>), folded.s)

Eval(node, env, s0) ==
  IF s0.fuel = 0 THEN R(DIVERGE, s0)
  ELSE
    LET s == [s0 EXCEPT !.fuel = @ - 1,
                        !.log = IF node.line = 0 THEN @ ELSE Append(@, node.line)]
    IN CASE node.k = "Program" -> evalProgram(node, env, s)
         [] node.k = "ExpressionStatement" -> Eval(node.Expression, env, s)
         [] node.k = "IntegerLiteral" -> R(Integer(node.Value), s)
         [] node.k = "FloatLiteral" -> R(Float(node.Value[1], node.Value[2]), s)
         [] node.k = "Boolean" -> R(nativeBoolToBooleanObject(node.Value), s)
         [] node.k = "PrefixExpression" -> casePrefixExpression(node, env, s)
         [] node.k = "InfixExpression" -> caseInfixExpression(node, env, s)
         [] node.k = "PostfixExpression" ->
              evalPostfixExpression(env, node.Operator, node, s)
         [] node.k = "BlockStatement" -> evalBlockStatement(node, env, s)
         [] node.k = "IfExpression" -> evalIfExpression(node, env, s)
         [] node.k = "ReturnStatement" -> caseReturnStatement(node, env, s)
         [] node.k = "LetStatement" -> caseLetStatement(node, env, s)
         [] node.k = "Identifier" -> R(evalIdentifier(node, env, s), s)
         [] node.k = "FunctionLiteral" -> caseFunctionLiteral(node, env, s)
         [] node.k = "CallExpression" -> caseCallExpression(node, env, s)
         [] node.k = "StringLiteral" -> R(String(node.Value), s)
         [] node.k = "ArrayLiteral" -> caseArrayLiteral(node, env, s)
         [] node.k = "IndexExpression" -> caseIndexExpression(node, env, s)
         [] node.k = "DictLiteral" -> evalDictLiteral(node, env, s)
         [] node.k = "WhileExpression" -> evalWhileExpression(node, env, s)
         [] node.k = "Break" -> R(evalBreak(node), s)
         [] node.k = "Continue" -> R(evalContinue(node), s)
         [] node.k = "SwitchExpression" -> evalSwitchStatement(node, env, s)
         [] node.k = "Null" -> R(NULL, s)
         [] node.k = "ForIn" -> evalForInExpression(node, env, s)
         [] node.k = "AssignmentExpression" -> caseAssignmentExpression(node, env, s)
         [] OTHER -> R(NIL, s)

(***************************************************************************)
(* The session.  envs[1] is the root environment the driver creates; every *)
(* step is one call Eval(program, root) by the driver.  result is what the *)
(* last call returned, log the lines it evaluated and input the name of    *)
(* its program: the family of inputs and the program's place in it.  A     *)
(* call that does not return ends the session.                             *)
(***************************************************************************)
VARIABLES envs, arr, back, dict, nfn, result, log, input, ninputs

vars == <<envs, arr, back, dict, nfn, result, log, input, ninputs>>

Init ==
  /\ envs = <<NewEnvironment>>
  /\ arr = <<>>
  /\ back = <<>>
  /\ dict = <<>>
  /\ nfn = 0
  /\ result = NIL
  /\ log = <<>>
  /\ input = [family |-> "none", i |-> 0]
  /\ ninputs = 0

\* The heap of the current state, as Eval threads it.
heapNow ==
  [envs |-> envs, arr |-> arr, back |-> back, dict |-> dict, nfn |-> nfn,
   fuel |-> MaxFuel, log |-> <<>>]

\* One call of the driver: Eval(program, root) for a program of one of the
\* families.
Run(families) ==
  \E family \in DOMAIN families :
    \E i \in 1..Len(families[family]) :
       /\ ninputs < MaxInputs
       /\ ~Aborted(result)
       /\ LET out == Eval(families[family][i], 1, heapNow) IN
            /\ envs' = out.s.envs
            /\ arr' = out.s.arr
            /\ back' = out.s.back
            /\ dict' = out.s.dict
            /\ nfn' = out.s.nfn
            /\ result' = out.r
            /\ log' = out.s.log
       /\ input' = [family |-> family, i |-> i]
       /\ ninputs' = ninputs + 1

(***************************************************************************)
(* Inputs.  Short names for the nodes the programs below are built from.   *)
(***************************************************************************)
id(name) == Identifier(0, name)

es(e) == ExpressionStatement(0, e)

num(n) == IntegerLiteral(n)

str(chars) == StringLiteral(chars)

block(stmts) == BlockStatement(stmts)

if(cond, cons) == IfExpression(cond, block(cons), NoNode)

call(f, args) == CallExpression(f, args)

fn(params, stmts) == FunctionLiteral(params, block(stmts))

old == <<"o", "l", "d">>

\* A name no environment binds and no builtin has.
hakuna(line) == Identifier(line, "hakuna")

Range(seq) == {seq[i] : i \in 1..Len(seq)}

Count(seq, x) == Cardinality({i \in 1..Len(seq) : seq[i] = x})

Lookup(name) == Get(envs, 1, name)

(***************************************************************************)
(* Loops: inputs that bind the names a loop uses, for-in loops over k, v   *)
(* and while loops.                                                        *)
(***************************************************************************)
LetInputs ==
  << Program(<<LetStatement(1, "k", str(old))>>),
     Program(<<LetStatement(1, "v", str(old))>>),
     Program(<<LetStatement(1, "k", str(old)), LetStatement(1, "v", num(0))>> ) >>

\* kwa k, v ktk iterable { body }: the first statement of every body is on
\* line 2.
forIn(iterable, body) == Program(<<es(ForIn("k", "v", iterable, block(body)))>>)

twoElements == ArrayLiteral(<<num(10), num(20)>>)

\* [1][1] = 0: a store past the end of a one-element array.
storePastEnd(line) ==
  AssignmentExpression(line, IndexExpression(ArrayLiteral(<<num(1)>>), num(1)), "=", num(0))

ForInInputs ==
  << forIn(twoElements, <<ExpressionStatement(2, id("v"))>>),
     forIn(twoElements, <<ExpressionStatement(2, Break)>>),
     forIn(twoElements, <<ExpressionStatement(2, Continue)>>),
     forIn(twoElements, <<ReturnStatement(2, id("v"))>>),
     forIn(twoElements, <<ExpressionStatement(2, hakuna(0))>>),
     forIn(twoElements, <<AssignmentExpression(2, id("k"), "=", num(99))>>),
     forIn(twoElements, <<storePastEnd(2)>>),
     forIn(ArrayLiteral(<<>>), <<ExpressionStatement(2, id("v"))>>),
     forIn(str(<<"a", "b">>), <<ExpressionStatement(2, id("v"))>>),
     forIn(id("k"), <<ExpressionStatement(2, id("v"))>>),
     forIn(num(5), <<ExpressionStatement(2, id("v"))>>),
     forIn(hakuna(0), <<ExpressionStatement(2, id("v"))>>) >>

\* fanya i = 0; wakati (i < 2) { i++; body }; i   with the body's statement
\* on line 3 and the statement after the loop on line 9.
while(body) ==
  Program(<<LetStatement(1, "i", num(0)),
            es(WhileExpression(InfixExpression(id("i"), "<", num(2)),
                 block(<<ExpressionStatement(2, PostfixExpression(0, "i", "++"))>> \o body))),
            ExpressionStatement(9, id("i"))>>)

atSecond(stmt) == es(if(InfixExpression(id("i"), "==", num(2)), <<stmt>>))

\* The body returns 7: in the first iteration, in the second, and in the
\* first iteration of a loop in a function body that is called.
WhileReturnInputs ==
  << while(<<ReturnStatement(3, num(7))>>),
     while(<<atSecond(ReturnStatement(3, num(7)))>>),
     Program(<<es(call(FunctionLiteral(<<>>,
                    block(while(<<ReturnStatement(3, num(7))>>).Statements)), <<>>))>>) >>

\* The body yields an Error: in the first iteration, in the second.
WhileErrorInputs ==
  << while(<<ExpressionStatement(3, hakuna(0))>>),
     while(<<atSecond(ExpressionStatement(3, hakuna(0)))>>) >>

\* The condition goes false; the body breaks.
WhileInputs == << while(<<>>), while(<<ExpressionStatement(3, Break)>>) >>

\* wakati (kweli) { vunja }  followed by a statement on line 4.
breakInside == <<es(WhileExpression(Boolean(TRUE), block(<<ExpressionStatement(3, Break)>>))),
                 ExpressionStatement(4, num(4))>>

\* The inner loop in the body of a for-in loop over two elements, of a while
\* loop of two iterations and of a called function.
NestedBreakInputs ==
  << Program(<<es(ForIn("k", "v", twoElements, block(breakInside))),
               ExpressionStatement(9, num(9))>>),
     while(breakInside),
     Program(<<es(call(fn(<<>>, breakInside), <<>>))>>) >>

\* How often the statement after the inner loop is to run.
NestedBreakRuns == <<2, 2, 1>>

LoopInputs ==
  [Let |-> LetInputs, ForIn |-> ForInInputs, While |-> WhileInputs,
   WhileReturn |-> WhileReturnInputs, WhileError |-> WhileErrorInputs,
   NestedBreak |-> NestedBreakInputs]

EvalLoop == Run(LoopInputs)

LoopSpec == Init /\ [][EvalLoop]_vars

\* C1: when the body of a while loop evaluates to a ReturnValue or an Error
\* in any iteration, the loop stops there and that ReturnValue or Error is
\* the result of the loop: the program returns the 7 (the Error) at once,
\* the body's statement on line 3 is evaluated once and neither a further
\* iteration nor the statement on line 9 runs.
C1_WhileStopsAtReturnOrError ==
  (input.family \in {"WhileReturn", "WhileError"} /\ 3 \in Range(log)) =>
     /\ result = IF input.family = "WhileReturn"
                   THEN Integer(7) ELSE newError("Neno Halifahamiki", <<"hakuna">>)
     /\ log[Len(log)] = 3
     /\ Count(log, 3) = 1

\* C12: a break in the body of a while loop nested in another loop (or in a
\* function body) ends that inner loop only: the statement after the inner
\* loop (line 4) runs in every iteration of the outer loop, and BREAK does
\* not come out of the enclosing block, loop or call.
C12_BreakEndsInnerLoopOnly ==
  (input.family = "NestedBreak" /\ 3 \in Range(log)) =>
     /\ Count(log, 4) = NestedBreakRuns[input.i]
     /\ Count(log, 3) = NestedBreakRuns[input.i]
     /\ result # BREAK

StringInOperands ==
  << <<<<"l", "o">>, <<"h", "e", "l", "l", "o">>>>,
     <<<<"z", "z">>, <<"h", "e", "l", "l", "o">>>>,
     <<<<>>, <<"h", "e", "l", "l", "o">>>>,
     <<<<>>, <<>>>>,
     <<<<"a">>, <<"a">>>>,
     <<<<"a", "b">>, <<"a">>>> >>

StringInInputs ==
  [i \in 1..Len(StringInOperands) |->
     Program(<<es(InfixExpression(str(StringInOperands[i][1]), "ktk",
                                  str(StringInOperands[i][2])))>>)]

StringInfixInputs ==
  << Program(<<es(InfixExpression(str(<<"a">>), "+", str(<<"b">>)))>>),
     Program(<<es(InfixExpression(str(<<"a">>), "==", str(<<"a">>)))>>),
     Program(<<es(InfixExpression(str(<<"a">>), "!=", str(<<"a">>)))>>),
     Program(<<es(InfixExpression(str(<<"a">>), "-", str(<<"b">>)))>>),
     Program(<<es(InfixExpression(str(<<"a", "b">>), "*", num(2)))>>) >>

CollectionInInputs ==
  << Program(<<es(InfixExpression(num(2), "ktk", ArrayLiteral(<<num(1), num(2)>>)))>>),
     Program(<<es(InfixExpression(num(3), "ktk", ArrayLiteral(<<num(1), num(2)>>)))>>),
     Program(<<es(InfixExpression(str(<<"a">>), "ktk", ArrayLiteral(<<str(<<"a">>)>>)))>>),
     Program(<<es(InfixExpression(str(<<"a">>), "ktk",
                    DictLiteral(<< <<str(<<"a">>), num(1)>> >>)))>>),
     Program(<<es(InfixExpression(str(<<"b">>), "ktk",
                    DictLiteral(<< <<str(<<"a">>), num(1)>> >>)))>>),
     Program(<<es(InfixExpression(str(<<"a">>), "ktk", num(1)))>>),
     Program(<<es(InfixExpression(id("k"), "ktk", ArrayLiteral(<<str(old)>>)))>>),
     Program(<<es(InfixExpression(str(<<"l">>), "ktk", id("k")))>>) >>

\* fanya a = elems; fanya x = a op right; then one more statement.
share(elems, op, right, then) ==
  Program(<<LetStatement(1, "a", ArrayLiteral(elems)),
            LetStatement(1, "x", InfixExpression(id("a"), op, right)),
            then>>)

storeFirst(name) == AssignmentExpression(2, IndexExpression(id(name), num(0)), "=", num(9))

oneTwoThree == <<num(1), num(2), num(3)>>

\* x = a + [4] then a + [5], then x[0] = 9, then a[0] = 9;  x = a * 1 and
\* x = a * 2 then a[0] = 9;  x = a * 1 then a * 2;  and for the two-element
\* a:  x = a + [3] then a + [5], then a[0] = 9.
ArrayShareInputs ==
  << share(oneTwoThree, "+", ArrayLiteral(<<num(4)>>),
           es(InfixExpression(id("a"), "+", ArrayLiteral(<<num(5)>>)))),
     share(oneTwoThree, "+", ArrayLiteral(<<num(4)>>), storeFirst("x")),
     share(oneTwoThree, "+", ArrayLiteral(<<num(4)>>), storeFirst("a")),
     share(oneTwoThree, "*", num(1), storeFirst("a")),
     share(oneTwoThree, "*", num(2), storeFirst("a")),
     share(oneTwoThree, "*", num(1), es(InfixExpression(id("a"), "*", num(2)))),
     share(<<num(1), num(2)>>, "+", ArrayLiteral(<<num(3)>>),
           es(InfixExpression(id("a"), "+", ArrayLiteral(<<num(5)>>)))),
     share(<<num(1), num(2)>>, "+", ArrayLiteral(<<num(3)>>), storeFirst("a")) >>

ints(seq) == [i \in 1..Len(seq) |-> Integer(seq[i])]

\* With no storage shared: the elements of a and of x after the program.
ArrayShareExpected ==
  << [a |-> ints(<<1, 2, 3>>), x |-> ints(<<1, 2, 3, 4>>)],
     [a |-> ints(<<1, 2, 3>>), x |-> ints(<<9, 2, 3, 4>>)],
     [a |-> ints(<<9, 2, 3>>), x |-> ints(<<1, 2, 3, 4>>)],
     [a |-> ints(<<9, 2, 3>>), x |-> ints(<<1, 2, 3>>)],
     [a |-> ints(<<9, 2, 3>>), x |-> ints(<<1, 2, 3, 1, 2, 3>>)],
     [a |-> ints(<<1, 2, 3>>), x |-> ints(<<1, 2, 3>>)],
     [a |-> ints(<<1, 2>>), x |-> ints(<<1, 2, 3>>)],
     [a |-> ints(<<9, 2>>), x |-> ints(<<1, 2, 3>>)] >>

OperatorInputs ==
  [Let |-> LetInputs, ArrayShare |-> ArrayShareInputs, StringIn |-> StringInInputs, StringInfix |-> StringInfixInputs,
   CollectionIn |-> CollectionInInputs]

EvalOperator == Run(OperatorInputs)

OperatorSpec == Init /\ [][EvalOperator]_vars

\* The elements of the array bound to name in the root environment.
elementsOf(name) == Elements(heapNow, Lookup(name).val)

\* C14: the array made by  a + b  or  a * n  shares no element storage with
\* its operands or with another result: after x is made from a, a further
\* a + c or a * n and a store into a leave the elements of x as they were,
\* and a store into x leaves a as it was.
C14_ArrayResultSharesNothing ==
  input.family = "ArrayShare" =>
     /\ elementsOf("a") = ArrayShareExpected[input.i].a
     /\ elementsOf("x") = ArrayShareExpected[input.i].x

\* C2: for two String operands x and y,  x ktk y  is TRUE when y contains x
\* as a substring (the empty x included) and FALSE otherwise.
C2_StringInIsSubstring ==
  input.family = "StringIn" =>
     result = nativeBoolToBooleanObject(
                Contains(StringInOperands[input.i][2], StringInOperands[input.i][1]))

(***************************************************************************)
(* Storage: what let, assignment, array literals, dict literals and call   *)
(* arguments store, stores into an array by index, and what Eval returns   *)
(* for the statements that store.                                          *)
(***************************************************************************)
\* kama (kweli) { stmt }
ifTrue(stmt) == if(Boolean(TRUE), <<stmt>>)

returns1 == ifTrue(ReturnStatement(0, num(1)))

StoreControlInputs ==
  << Program(<<LetStatement(1, "x", returns1)>>),
     Program(<<LetStatement(1, "x", ifTrue(es(Break)))>>),
     Program(<<LetStatement(1, "x",
                 WhileExpression(Boolean(TRUE), block(<<es(Break)>>)))>>),
     Program(<<LetStatement(1, "x", num(0)),
               AssignmentExpression(2, id("x"), "=", ifTrue(es(Continue)))>>),
     Program(<<LetStatement(1, "a", ArrayLiteral(<<returns1>>))>>),
     Program(<<LetStatement(1, "d", DictLiteral(<< <<str(<<"a">>), returns1>> >>))>>),
     Program(<<es(call(fn(<<"p">>, <<es(num(0))>>), <<returns1>>))>>),
     Program(<<LetStatement(1, "x",
                 SwitchExpression(num(1),
                   <<CaseExpression(FALSE, <<num(1)>>,
                       block(<<ReturnStatement(0, num(1))>>))>>))>>),
     Program(<<LetStatement(1, "x", hakuna(0))>>),
     Program(<<LetStatement(1, "x", ifTrue(es(num(1))))>>) >>

\* The indexes i of the stores  a[i] = 9  into  a = [1, 2, 3].
StoreIndexes == <<0, 1, 2, 3, 4>>

threeElements == <<Integer(1), Integer(2), Integer(3)>>

StoreInputs ==
  [i \in 1..Len(StoreIndexes) |->
     Program(<<LetStatement(1, "a", ArrayLiteral(<<num(1), num(2), num(3)>>)),
               AssignmentExpression(2, IndexExpression(id("a"), num(StoreIndexes[i])),
                                    "=", num(9))>>)]

switch(subject, candidate, default) ==
  SwitchExpression(subject,
    <<CaseExpression(FALSE, <<candidate>>, block(<<ExpressionStatement(9, num(1))>>))>>
    \o (IF default
          THEN <<CaseExpression(TRUE, <<>>, block(<<ExpressionStatement(9, num(2))>>))>>
          ELSE <<>>))

SwitchInputs ==
  << Program(<<es(switch(num(1), num(1), FALSE))>>),
     Program(<<es(switch(num(3), num(1), TRUE))>>),
     Program(<<es(switch(num(3), num(1), FALSE))>>) >>

\* fanya a = [10, 20, 30]; fanya n = -1; a[index] literal value   with the
\* container a on line 6 of the target and the index on line 5.
indexAssign(index, literal, value) ==
  Program(<<LetStatement(1, "a", ArrayLiteral(<<num(10), num(20), num(30)>>)),
            LetStatement(1, "n", PrefixExpression("-", num(1))),
            AssignmentExpression(2, IndexExpression(Identifier(6, "a"), index),
                                 literal, value)>>)

\* a[n++] = 9,  a[n++] += 5  and  a[0] = 9  with the index 0 read from a name.
IndexAssignInputs ==
  << indexAssign(PostfixExpression(5, "n", "++"), "=", num(9)),
     indexAssign(PostfixExpression(5, "n", "++"), "+=", num(5)),
     indexAssign(InfixExpression(Identifier(5, "n"), "+", num(1)), "=", num(9)) >>

\* With the target evaluated once: n afterwards, and the elements of a.
IndexAssignExpected ==
  << [n |-> 0, a |-> <<Integer(9), Integer(20), Integer(30)>>],
     [n |-> 0, a |-> <<Integer(15), Integer(20), Integer(30)>>],
     [n |-> -1, a |-> <<Integer(9), Integer(20), Integer(30)>>] >>

StorageInputs ==
  [Let |-> LetInputs, StoreControl |-> StoreControlInputs, Store |-> StoreInputs,
   Switch |-> SwitchInputs, IndexAssign |-> IndexAssignInputs]

EvalStorage == Run(StorageInputs)

StorageSpec == Init /\ [][EvalStorage]_vars

internal(obj) == obj.t \in {"RETURN_VALUE", "ERROR", "BREAK", "CONTINUE"}

\* C4: in every reachable state no ReturnValue, Error, Break or Continue
\* object is bound to a name in an environment, is an element of an array or
\* is the value of a dict pair.
C4_NoInternalObjectStored ==
  /\ \A e \in 1..Len(envs) : \A name \in DOMAIN envs[e].store : ~internal(envs[e].store[name])
  /\ \A b \in 1..Len(back) : \A j \in 1..Len(back[b]) : ~internal(back[b][j])
  /\ \A d \in 1..Len(dict) : \A key \in DOMAIN dict[d].Pairs : ~internal(dict[d].Pairs[key].Value)

\* The elements of the array bound to a in the root environment.
elementsOfA == Elements(heapNow, Lookup("a").val)

\* C6: for  a[i] = v  on an array of length n: with i = n the result is the
\* error "Index imezidi idadi ya elements" and the array is unchanged; with
\* i < n exactly slot i holds v afterwards, the rest being unchanged.
C6_StoreByIndex ==
  input.family = "Store" =>
     LET i == StoreIndexes[input.i] IN
       /\ i = Len(threeElements) =>
            /\ result = newError("Index imezidi idadi ya elements", <<>>)
            /\ elementsOfA = threeElements
       /\ i < Len(threeElements) =>
            /\ ~isError(result) /\ ~Aborted(result)
            /\ elementsOfA = [threeElements EXCEPT ![i + 1] = Integer(9)]

\* C13: an assignment  t[i] = v  or  t[i] op= v  evaluates t (line 6) and
\* i (line 5) exactly once: n++ in the index happens once, and the slot
\* read for the compound operator is the slot written.
C13_TargetEvaluatedOnce ==
  input.family = "IndexAssign" =>
     /\ Count(log, 5) = 1
     /\ Count(log, 6) = 1
     /\ Lookup("n").val = Integer(IndexAssignExpected[input.i].n)
     /\ elementsOfA = IndexAssignExpected[input.i].a

\* C7: Eval returns a normal value, a ReturnValue, BREAK, CONTINUE or an
\* Error, never an absent (nil) result: also for a program that ends in a
\* LetStatement, an AssignmentExpression or a switch without a matching
\* clause and without default.
C7_EvalNeverReturnsNil == ninputs > 0 => result # NIL

(***************************************************************************)
(* Errors: a child node that evaluates to the Error of an unknown name     *)
(* (line 5), with a sibling that would be evaluated after it (line 9).     *)
(***************************************************************************)
later == Identifier(9, "x")

\* The programs around a child node e; each binds x first (line 1).
around(e) ==
  LET with(stmts) == Program(<<LetStatement(1, "x", num(1))>> \o stmts) IN
  << with(<<es(InfixExpression(e, "+", later))>>),
     with(<<es(e), es(later)>>),
     with(<<es(IfExpression(e, block(<<es(later)>>), block(<<es(later)>>)))>>),
     with(<<es(WhileExpression(e, block(<<es(later), es(Break)>>)))>>),
     with(<<es(call(fn(<<"p", "q">>, <<es(later)>>), <<e, later>>))>>),
     with(<<es(call(e, <<later>>))>>),
     with(<<es(ArrayLiteral(<<e, later>>))>>),
     with(<<es(IndexExpression(e, later))>>),
     with(<<LetStatement(0, "y", e), es(later)>>),
     with(<<ReturnStatement(0, e), es(later)>>),
     with(<<es(SwitchExpression(e,
                 <<CaseExpression(FALSE, <<num(1)>>, block(<<es(later)>>)),
                   CaseExpression(TRUE, <<>>, block(<<es(later)>>))>>))>>),
     with(<<es(SwitchExpression(num(1),
                 <<CaseExpression(FALSE, <<e, later>>, block(<<es(later)>>)),
                   CaseExpression(TRUE, <<>>, block(<<es(later)>>))>>))>>),
     with(<<es(ForIn("k", "v", e, block(<<es(later)>>)))>>) >>

ErrorInInputs == around(hakuna(5))

NoErrorInputs == around(Identifier(5, "x"))

ErrorInputs ==
  [ErrorIn |-> ErrorInInputs, NoError |-> NoErrorInputs, WhileError |-> WhileErrorInputs]

EvalError == Run(ErrorInputs)

ErrorSpec == Init /\ [][EvalError]_vars

\* C5: when the evaluation of a child node yields an Error, the enclosing
\* Eval returns that very Error without evaluating a further sibling, and
\* the Error is the result of the Program: the child on line 5 (line 3 in a
\* loop body) is the last node evaluated and the result is its Error.
C5_ErrorEndsEvaluation ==
  \A line \in {3, 5} :
    (input.family \in {"ErrorIn", "WhileError"} /\ line \in Range(log)) =>
       /\ result = newError("Neno Halifahamiki", <<"hakuna">>)
       /\ log[Len(log)] = line
       /\ Count(log, line) = 1

(***************************************************************************)
(* Functions: calls with fewer and with more arguments than parameters,    *)
(* return statements in function bodies and programs, and closures.        *)
(***************************************************************************)
LetQInputs == << Program(<<LetStatement(1, "q", num(5))>>) >>

\* unda(p, q) { q }(1)  in the root environment, and the same function made
\* and called in the environment of a call mk(8) that binds q.
FewArgsInputs ==
  << Program(<<es(call(fn(<<"p", "q">>, <<es(id("q"))>>), <<num(1)>>))>>),
     Program(<<es(call(call(fn(<<"q">>, <<es(fn(<<"p", "q">>, <<es(id("q"))>>))>>),
                            <<num(8)>>),
                       <<num(1)>>))>>) >>

\* unda(p) { p }(1, 2, 3)  and  unda() { 7 }(1)
ExtraArgsInputs ==
  << Program(<<es(call(fn(<<"p">>, <<es(id("p"))>>), <<num(1), num(2), num(3)>>))>>),
     Program(<<es(call(fn(<<>>, <<es(num(7))>>), <<num(1)>>))>>) >>

\* rudisha 3 + 4  on line 5.
rudisha == ReturnStatement(5, InfixExpression(num(3), "+", num(4)))

\* A statement on line 9: one that comes after a return.
after == ExpressionStatement(9, num(9))

overTwo(body) == es(ForIn("k", "v", ArrayLiteral(<<num(1), num(2)>>), block(body)))

\* Bodies with a return nested in blocks, if-expressions and for-in loops,
\* and one whose return is not reached.
ReturnBodies ==
  << <<rudisha, after>>,
     <<ExpressionStatement(4, num(4)), es(ifTrue(rudisha)), after>>,
     <<es(ifTrue(es(if(Boolean(TRUE), <<rudisha, after>>)))), after>>,
     <<es(IfExpression(Boolean(FALSE), block(<<es(num(1))>>), block(<<rudisha, after>>))),
       after>>,
     <<overTwo(<<rudisha, after>>), after>>,
     <<overTwo(<<es(if(InfixExpression(id("v"), "==", num(2)), <<rudisha>>)),
                 ExpressionStatement(8, num(8))>>), after>>,
     <<overTwo(<<overTwo(<<es(ifTrue(rudisha)), after>>), after>>), after>>,
     <<es(if(Boolean(FALSE), <<rudisha>>)), after>> >>

\* fanya h = unda() { body }; fanya r = h(); r
ReturnCallInputs ==
  [i \in 1..Len(ReturnBodies) |->
     Program(<<LetStatement(1, "h", fn(<<>>, ReturnBodies[i])),
               LetStatement(2, "r", call(id("h"), <<>>)),
               ExpressionStatement(3, id("r"))>>)]

ReturnProgramInputs == [i \in 1..Len(ReturnBodies) |-> Program(ReturnBodies[i])]

\* A return in the if-expression a let takes its value from: the let binds
\* the ReturnValue and the body goes on.
ReturnInValueInputs ==
  << Program(<<es(call(fn(<<>>, <<LetStatement(4, "y", ifTrue(rudisha)), after>>), <<>>))>>) >>

\* fanya x = 1; fanya f = unda() { x }; fanya g = unda(x) { f() }
DefineInputs ==
  << Program(<<LetStatement(1, "x", num(1)),
               LetStatement(1, "f", fn(<<>>, <<es(id("x"))>>)),
               LetStatement(1, "g", fn(<<"x">>, <<es(call(id("f"), <<>>))>>))>>) >>

RebindInputs == << Program(<<LetStatement(1, "x", num(2))>>) >>

\* f();  fanya x = 3; f();  g(99);  fanya x = 4; g(99)
CallClosureInputs ==
  << Program(<<es(call(id("f"), <<>>))>>),
     Program(<<LetStatement(1, "x", num(3)), es(call(id("f"), <<>>))>>),
     Program(<<es(call(id("g"), <<num(99)>>))>>),
     Program(<<LetStatement(1, "x", num(4)), es(call(id("g"), <<num(99)>>))>>) >>

\* fanya mk = unda(x) { unda(y) { x + y } }; fanya add5 = mk(5); add5(7)
MkInputs ==
  << Program(<<LetStatement(1, "mk",
                 fn(<<"x">>, <<es(fn(<<"y">>, <<es(InfixExpression(id("x"), "+", id("y")))>>))>>)),
               LetStatement(1, "add5", call(id("mk"), <<num(5)>>)),
               es(call(id("add5"), <<num(7)>>))>>) >>

FunctionInputs ==
  [LetQ |-> LetQInputs, FewArgs |-> FewArgsInputs, ExtraArgs |-> ExtraArgsInputs,
   ReturnCall |-> ReturnCallInputs, ReturnProgram |-> ReturnProgramInputs,
   ReturnInValue |-> ReturnInValueInputs, Define |-> DefineInputs,
   Rebind |-> RebindInputs, CallClosure |-> CallClosureInputs, Mk |-> MkInputs]

EvalFunction == Run(FunctionInputs)

FunctionSpec == Init /\ [][EvalFunction]_vars

\* The environment of the last call: the last environment created.
callEnv == envs[Len(envs)]

unknown(name) == newError("Neno Halifahamiki", <<name>>)

\* C8 as claimed: in a call with fewer arguments than parameters the
\* parameter without an argument is unbound in the call's environment and
\* its identifier in the body evaluates to the unknown-identifier error,
\* whatever the captured environment.
C8_MissingParameterIsUnknown ==
  input.family = "FewArgs" =>
     /\ "q" \notin DOMAIN callEnv.store
     /\ result = unknown("q")

\* C8 amended: the parameter without an argument is unbound in the call's
\* environment, and its identifier in the body resolves like any free name,
\* through the captured environment's chain: to the value bound there, to
\* the unknown-identifier error when no environment of the chain binds it.
\* Extra arguments bind nothing: the call's environment binds the parameters
\* only.
C8_MissingParameterIsFreeName ==
  /\ input.family = "FewArgs" =>
       /\ DOMAIN callEnv.store = {"p"}
       /\ LET captured == Get(envs, callEnv.outer, "q") IN
            result = IF captured.ok THEN captured.val ELSE unknown("q")
       /\ input.i = 1 => callEnv.outer = 1
       /\ input.i = 2 => result = Integer(8)
  /\ input.family = "ExtraArgs" =>
       /\ input.i = 1 => DOMAIN callEnv.store = {"p"} /\ result = Integer(1)
       /\ input.i = 2 => DOMAIN callEnv.store = {} /\ result = Integer(7)

\* f(1) for the two-parameter f gave the 5 that q is bound to in the root
\* environment the function captured.
C8_Witness ==
  /\ input = [family |-> "FewArgs", i |-> 1]
  /\ Lookup("q").ok
  /\ "q" \notin DOMAIN callEnv.store
  /\ result = Integer(5)

C10_ClosureSeesCapturedEnvAtCall ==
  /\ (input.family = "CallClosure" /\ Lookup("f").ok) =>
        /\ result = Lookup("x").val
        /\ input.i = 2 => result = Integer(3)
        /\ input.i = 4 => result = Integer(4)
  /\ input.family = "Mk" => result = Integer(12)

\* f was defined when x was 1; x was rebound to 4 and g(99) called.
C10_Witness ==
  /\ input = [family |-> "CallClosure", i |-> 4]
  /\ Lookup("f").ok
  /\ Lookup("x").val = Integer(4)
  /\ result = Integer(4)

(***************************************************************************)
(* Switch: every subject against every layout of clauses.  The subject is  *)
(* on line 1, candidate j of clause c on line 10c + j and the block of     *)
(* clause c, which yields c, on line 10c.                                  *)
(***************************************************************************)
\* 1, 1.0, "1" and 2: the literal and the object it evaluates to.
SwitchLiterals ==
  << [node |-> IntegerLiteral(1), obj |-> Integer(1)],
     [node |-> FloatLiteral(1, 1), obj |-> Float(1, 1)],
     [node |-> StringLiteral(<<"1">>), obj |-> String(<<"1">>)],
     [node |-> IntegerLiteral(2), obj |-> Integer(2)] >>

\* A clause is default or has candidates, named by their place in
\* SwitchLiterals.
SwitchLayouts ==
  << << [Default |-> FALSE, cands |-> <<1>>], [Default |-> FALSE, cands |-> <<2>>],
        [Default |-> TRUE, cands |-> <<>>] >>,
     << [Default |-> TRUE, cands |-> <<>>], [Default |-> FALSE, cands |-> <<4, 1, 1>>],
        [Default |-> FALSE, cands |-> <<1>>], [Default |-> TRUE, cands |-> <<>>] >>,
     << [Default |-> FALSE, cands |-> <<3, 2>>], [Default |-> FALSE, cands |-> <<4>>] >>,
     << [Default |-> FALSE, cands |-> <<2, 1>>], [Default |-> FALSE, cands |-> <<1, 3>>] >>,
     << [Default |-> TRUE, cands |-> <<>>] >> >>

at(line, node) == [node EXCEPT !.line = line]

switchOf(subject, layout) ==
  SwitchExpression(at(1, SwitchLiterals[subject].node),
    [c \in 1..Len(layout) |->
       CaseExpression(layout[c].Default,
         [j \in 1..Len(layout[c].cands) |->
            at(10 * c + j, SwitchLiterals[layout[c].cands[j]].node)],
         block(<<ExpressionStatement(10 * c, num(c))>>))])

\* Input i pairs a subject with a layout.
subjectOf(i) == ((i - 1) % Len(SwitchLiterals)) + 1

layoutOf(i) == SwitchLayouts[((i - 1) \div Len(SwitchLiterals)) + 1]

SwitchMatchInputs ==
  [i \in 1..(Len(SwitchLiterals) * Len(SwitchLayouts)) |->
     Program(<<es(switchOf(subjectOf(i), layoutOf(i)))>>)]

SwitchSpecInputs ==
  [SwitchMatch |-> SwitchMatchInputs, Switch |-> SwitchInputs, Let |-> LetInputs]

EvalSwitch == Run(SwitchSpecInputs)

SwitchSpec == Init /\ [][EvalSwitch]_vars

\* Type tag and textual inspection of two literals are equal.
sameTagAndText(a, b) ==
  /\ SwitchLiterals[a].obj.t = SwitchLiterals[b].obj.t
  /\ Inspect(heapNow, SwitchLiterals[a].obj) = Inspect(heapNow, SwitchLiterals[b].obj)

\* The candidates of clause c that match the subject, and the clauses that
\* have one.
matching(layout, c, subject) ==
  {j \in 1..Len(layout[c].cands) : sameTagAndText(layout[c].cands[j], subject)}

matchingClauses(layout, subject) ==
  {c \in 1..Len(layout) : ~layout[c].Default /\ matching(layout, c, subject) # {}}

defaultClauses(layout) == {c \in 1..Len(layout) : layout[c].Default}

min(S) == CHOOSE x \in S : \A y \in S : x <= y

\* The one clause whose block runs, 0 for none.
clauseToRun(layout, subject) ==
  IF matchingClauses(layout, subject) # {} THEN min(matchingClauses(layout, subject))
  ELSE IF defaultClauses(layout) # {} THEN min(defaultClauses(layout))
  ELSE 0

\* The lines of the candidates that are evaluated: those of the non-default
\* clauses up to the first match.
candidatesEvaluated(layout, subject) ==
  LET m == matchingClauses(layout, subject)
      evaluated(c, j) ==
        /\ ~layout[c].Default
        /\ j <= Len(layout[c].cands)
        /\ m # {} => \/ c < min(m)
                     \/ c = min(m) /\ j <= min(matching(layout, c, subject))
  IN {10 * p[1] + p[2] : p \in {q \in (1..Len(layout)) \X (1..3) : evaluated(q[1], q[2])}}

blockLines == {10 * c : c \in 1..4}

\* C11: a switch runs the block of at most one clause: the first
\* non-default clause having a candidate whose type tag and inspection
\* equal the subject's, no candidate after the first match being evaluated;
\* the first default clause if and only if no non-default clause matches;
\* Integer 1 and Float 1.0 do not match.
C11_SwitchRunsOneClause ==
  input.family = "SwitchMatch" =>
     LET layout  == layoutOf(input.i)
         subject == subjectOf(input.i)
         c       == clauseToRun(layout, subject)
     IN /\ Len(log) >= 1 /\ log[1] = 1
        /\ {log[n] : n \in 2..Len(log)} \ blockLines = candidatesEvaluated(layout, subject)
        /\ \A line \in candidatesEvaluated(layout, subject) : Count(log, line) = 1
        /\ {n \in 1..Len(log) : log[n] \in blockLines} = IF c = 0 THEN {} ELSE {Len(log)}
        /\ c # 0 => log[Len(log)] = 10 * c /\ result = Integer(c)
        /\ c = 0 => result = NIL
        /\ ~sameTagAndText(1, 2)

\* The subject 1 against  default | 2, 1, 1 | 1 | default: the candidates 2
\* and 1 of the second clause are evaluated and its block runs.
C11_Witness ==
  /\ input = [family |-> "SwitchMatch", i |-> 5]
  /\ log = <<1, 21, 22, 20>>
  /\ result = Integer(2)

====
